---- MODULE Spec2Model ----
(***************************************************************************)
(* State-machine model of src/streamlit_app.py (ULE2 training dashboard).  *)
(*                                                                         *)
(* One state of the model is the state between two script runs: the        *)
(* st.session_state of every browser session, the page each browser        *)
(* shows, and the Firestore documents.  One action is one script run       *)
(* (top of the file to st.rerun(), to an uncaught exception, or to the     *)
(* end of the file), chosen by the widget event that triggered it.         *)
(***************************************************************************)
EXTENDS Integers, Sequences, FiniteSets, TLC

VARIABLES
    session_state,   \* session -> the keys of st.session_state (+ the page shown)
    users,           \* Firestore: users/{email}
    lessons,         \* Firestore: users/{email}/lessons/{lesson_id}
    last,            \* history: what the most recent script run did
    ended,           \* history: the ledgers of the session that was closed last
    grad_in,         \* inputs of the stand-alone check_graduation_status evaluation
    grad_out,        \* its result ("none" before it ran)
    caches           \* Vertex AI: the display names of the context caches, as listed

vars == <<session_state, users, lessons, last, ended, grad_in, grad_out, caches>>

-----------------------------------------------------------------------------
(* Bounds *)

\* longest transcript (chat_history) a session may hold
MaxChat == 3

-----------------------------------------------------------------------------
(* Python dict helpers *)

EmptyDict == [k \in {} |-> <<>>]

Get(d, k, default) == IF k \in DOMAIN d THEN d[k] ELSE default

Put(d, k, v) == [x \in (DOMAIN d) \cup {k} |-> IF x = k THEN v ELSE d[x]]

\* Python truthiness of archived_status.get(k)
Truthy(d, k) == k \in DOMAIN d /\ d[k] = TRUE

-----------------------------------------------------------------------------
(* The manifest (skyhigh_manifest.json) and other fixed data *)

Sessions == {"s1", "s2"}

\* the sessions the single-session specification runs
Solo == {"s1"}

Email == "u@x"

\* The manifest file is data read at start-up; this instance has the lesson
\* the code falls back to ("GEAR-01") first, a module of two lessons and a
\* second module.
manifest ==
    << [id |-> "MOD-01", lessons |-> <<"GEAR-01", "GEAR-02">>],
       [id |-> "MOD-02", lessons |-> <<"BODY-01">>] >>

RECURSIVE Flatten(_)
Flatten(mods) ==
    IF mods = <<>> THEN <<>>
    ELSE Head(mods).lessons \o Flatten(Tail(mods))

\* [l['id'] for mod in manifest['modules'] for l in mod['lessons']]
all_manifest_lessons(m) == Flatten(m)

Range(seq) == {seq[i] : i \in 1..Len(seq)}

LessonIds == Range(all_manifest_lessons(manifest))

\* The instructor's replies, as token sequences; the tags are what the
\* code searches for in the text.
VALIDATE == "[VALIDATE: ALL]"
ASSET_TAG == "[AssetID: IMG-1]"

Replies ==
    { <<"text">>,
      <<ASSET_TAG, "text", VALIDATE>> }

\* "[VALIDATE: ALL]" in response_text
HasValidate(text) == \E i \in 1..Len(text) : text[i] = VALIDATE

\* re.search(r"\[(?:Asset\s*(?:ID)?:\s*)?((?:IMG|VID)-[^\]\s]+)\]", text):
\* group(1).strip().upper() of the first match, "" when there is none
AssetMatch(text) ==
    IF \E i \in 1..Len(text) : text[i] = ASSET_TAG THEN "IMG-1" ELSE ""

UserMsg == [role |-> "user", content |-> <<"question">>]
ModelMsg(text) == [role |-> "model", content |-> text]

\* manifest['resource_library']: asset id -> path of the file in the bucket
resource_library == [a \in {"IMG-1"} |-> [path |-> "img1.jpg"]]

\* "not asset_id": the key is missing or holds None
NoAsset(asset_id) == asset_id \in {"absent", "None", ""}

\* asset_id.replace("[", "").replace("]", "").replace("AssetID:", "").strip()
clean_id(asset_id) ==
    CASE asset_id = "[IMG-1]" -> "IMG-1"
      [] asset_id = "[AssetID: IMG-1]" -> "IMG-1"
      [] OTHER -> asset_id

\* resolve_asset_url: the signed URL, or "None" for no id, an id that the
\* resource library does not list, or a signing request that raises
resolve_asset_url(asset_id, sign_ok) ==
    IF NoAsset(asset_id) THEN "None"
    ELSE IF clean_id(asset_id) \notin DOMAIN resource_library THEN "None"
    ELSE IF sign_ok THEN "URL"
    ELSE "None"

-----------------------------------------------------------------------------
(* st.session_state *)

\* A session that has not run the script yet: no key exists.
\*   started : the keys the initialization block creates exist
\*   page    : what the browser shows after the session's latest run:
\*             "rerun" (the run ended in st.rerun(), the next run follows),
\*             "login", "lesson" (the whole lesson interface),
\*             "lesson_partial" (the run died in the handshake: sidebar and
\*             roadmap only), "lesson_chatfail" (the run died while handling
\*             a student message), "grad", "error"
\*   shared  : chat_history and lesson_chats[active_lesson] are the same
\*             Python list object, so an append to one shows in the other
\*   model   : the key is present
\*   chat_session : open says the key is present; sent is the log of the
\*             chat session object: the context prefixes (the focus lesson,
\*             or "GRADUATE") of the messages sent over it since start_chat
\*   active_cache : the position of the cache object in the list of Vertex
\*             caches, 0 when the key is missing
\*   "absent" : the key is not in st.session_state
\*   grad_history : <<>> also stands for the missing key (the code treats
\*             both alike)
Fresh ==
    [ started               |-> FALSE,
      page                  |-> "none",
      active_lesson         |-> "absent",
      needs_handshake       |-> FALSE,
      active_mod            |-> "absent",
      archived_status       |-> EmptyDict,
      lesson_chats          |-> EmptyDict,
      lesson_assets         |-> EmptyDict,
      chat_history          |-> <<>>,
      shared                |-> FALSE,
      authentication_status |-> "None",
      username              |-> "absent",
      hydrated              |-> FALSE,
      model                 |-> FALSE,
      active_cache          |-> 0,
      chat_session          |-> [open |-> FALSE, sent |-> {}],
      active_visual         |-> "absent",
      graduation_report     |-> "absent",
      grad_history          |-> <<>>,
      authenticator         |-> [built |-> FALSE, usernames |-> {}] ]

\* Session state initialization: every key is created only when absent.
\* All of these keys are created by the first run and none is ever deleted,
\* so one flag stands for "the keys exist".
InitSessionStateReset(ss) ==
    [ss EXCEPT !.started = TRUE,
               !.active_lesson = "GEAR-01",
               !.needs_handshake = TRUE,
               !.active_mod = manifest[1].id,
               !.archived_status = EmptyDict,
               !.lesson_chats = EmptyDict,
               !.lesson_assets = EmptyDict,
               !.chat_history = <<>>,
               !.shared = FALSE,
               !.authentication_status =
                   IF ss.started THEN ss.authentication_status ELSE "None"]

InitSessionState(ss) ==
    IF ss.started THEN ss
    ELSE [ss EXCEPT !.started = TRUE,
                    !.active_lesson = "GEAR-01",
                    !.needs_handshake = TRUE,
                    !.active_mod = manifest[1].id,
                    !.archived_status = EmptyDict,
                    !.lesson_chats = EmptyDict,
                    !.lesson_assets = EmptyDict,
                    !.chat_history = <<>>,
                    !.shared = FALSE,
                    !.authentication_status = "None"]

\* get_user_credentials + the Authenticate object, built once per session
\* from the user records that exist at that moment
Authenticator(ss, userdocs) ==
    IF ~ss.authenticator.built
    THEN [ss EXCEPT !.authenticator = [built |-> TRUE, usernames |-> DOMAIN userdocs]]
    ELSE ss

\* Everything a script run executes before the UI wrapper
Boot(ss, userdocs) == Authenticator(InitSessionState(ss), userdocs)

Authenticated(ss) == ss.authentication_status = "True"

-----------------------------------------------------------------------------
(* check_graduation_status *)

RECURSIVE CountTrue(_, _)
CountTrue(d, keys) ==
    IF keys = {} THEN 0
    ELSE LET k == CHOOSE x \in keys : TRUE
         IN (IF d[k] = TRUE THEN 1 ELSE 0) + CountTrue(d, keys \ {k})

\* completed = every key of archived_status whose value is true;
\* progress = len(completed) / len(all_lesson_ids) if all_lesson_ids else 0;
\* return progress >= 1.0
check_graduation_status(m, archived_status) ==
    LET all_lesson_ids == all_manifest_lessons(m)
        completed == CountTrue(archived_status, DOMAIN archived_status)
    IN  IF Len(all_lesson_ids) > 0
        THEN completed >= Len(all_lesson_ids)
        ELSE FALSE

Graduated(ss) == check_graduation_status(manifest, ss.archived_status)


-----------------------------------------------------------------------------
(* Firestore sync engine *)

LessonDoc(status, chat, asset) ==
    [status |-> status, chat_history |-> chat, assets_surfaced |-> asset]

\* doc_ref.set({...}, merge=True) on users/{email}/lessons/{active_lesson};
\* every field of the document is given, so the document is replaced
save_audit_progress_stale(ss, docs) ==
    IF Authenticated(ss)
    THEN Put(docs, ss.active_lesson,
             LessonDoc("In Progress",
                       ss.chat_history,
                       IF ss.active_visual = "absent" THEN "" ELSE ss.active_visual))
    ELSE docs

\* a save that would respect a status another session has persisted
save_audit_progress_guarded(ss, docs) ==
    IF Authenticated(ss)
    THEN Put(docs, ss.active_lesson,
             LessonDoc(IF \/ Truthy(ss.archived_status, ss.active_lesson)
                          \/ /\ ss.active_lesson \in DOMAIN docs
                             /\ docs[ss.active_lesson].status = "Passed"
                       THEN "Passed" ELSE "In Progress",
                       ss.chat_history,
                       IF ss.active_visual = "absent" THEN "" ELSE ss.active_visual))
    ELSE docs

save_audit_progress(ss, docs) ==
    IF Authenticated(ss)
    THEN Put(docs, ss.active_lesson,
             LessonDoc(IF Truthy(ss.archived_status, ss.active_lesson)
                       THEN "Passed" ELSE "In Progress",
                       ss.chat_history,
                       IF ss.active_visual = "absent" THEN "" ELSE ss.active_visual))
    ELSE docs

\* Smart resume: the first manifest lesson that is not passed, else "GEAR-01"
RECURSIVE resume_lesson_last(_, _)
resume_lesson_last(ids, archived_status) ==
    IF ids = <<>> THEN "GEAR-01"
    ELSE IF ~Truthy(archived_status, ids[Len(ids)]) THEN ids[Len(ids)]
    ELSE resume_lesson_last(SubSeq(ids, 1, Len(ids) - 1), archived_status)

RECURSIVE resume_lesson(_, _)
resume_lesson(ids, archived_status) ==
    IF ids = <<>> THEN "GEAR-01"
    ELSE IF ~Truthy(archived_status, Head(ids)) THEN Head(ids)
    ELSE resume_lesson(Tail(ids), archived_status)

\* for mod in manifest['modules']: if lesson in mod's lessons: return mod id
RECURSIVE module_of(_, _, _)
module_of(mods, lesson, default) ==
    IF mods = <<>> THEN default
    ELSE IF lesson \in Range(Head(mods).lessons) THEN Head(mods).id
    ELSE module_of(Tail(mods), lesson, default)

\* the ledgers as load_audit_progress fills them from the lessons subcollection
ledger_status_any(docs) ==
    [l \in DOMAIN docs |-> TRUE]

ledger_status(docs) ==
    [l \in DOMAIN docs |-> (docs[l].status = "Passed")]

ledger_chats(docs) ==
    [l \in DOMAIN docs |-> docs[l].chat_history]

load_audit_progress(ss, docs) ==
    IF Authenticated(ss) /\ ss.username # "absent"
    THEN LET status == ledger_status(docs)
             chats  == ledger_chats(docs)
             resume == resume_lesson(all_manifest_lessons(manifest), status)
         IN [ss EXCEPT !.archived_status = status,
                       !.lesson_chats = chats,
                       !.active_lesson = resume,
                       !.chat_history = Get(chats, resume, <<>>),
                       !.shared = (resume \in DOMAIN chats),
                       !.active_mod = module_of(manifest, resume, ss.active_mod)]
    ELSE ss

CACHE_DISPLAY_NAME == "alpha-syllabus-cache"

\* what caching.CachedContent.list() shows before the application ever ran:
\* a cache of another application
NoSyllabusCache == <<"other-cache">>

\* get_or_create_cache: cache is the position of the returned cache in the
\* list, caches the list afterwards, how tells which branch returned
get_or_create_cache_new(existing_caches) ==
    [cache  |-> Len(existing_caches) + 1,
     caches |-> Append(existing_caches, CACHE_DISPLAY_NAME),
     how    |-> "created"]

get_or_create_cache(existing_caches) ==
    IF \E i \in 1..Len(existing_caches) : existing_caches[i] = CACHE_DISPLAY_NAME
    THEN [cache  |-> CHOOSE i \in 1..Len(existing_caches) :
                        /\ existing_caches[i] = CACHE_DISPLAY_NAME
                        /\ \A j \in 1..(i-1) : existing_caches[j] # CACHE_DISPLAY_NAME,
          caches |-> existing_caches,
          how    |-> "found"]
    ELSE [cache  |-> Len(existing_caches) + 1,
          caches |-> Append(existing_caches, CACHE_DISPLAY_NAME),
          how    |-> "created"]

\* 'if not st.session_state.get("hydrated", False)' of the login restoration
\* and 'if "hydrated" not in st.session_state' of the auto-hydration gate:
\* the key is only ever set to True, so the two tests agree
hydration_due_always(ss) == TRUE

hydration_due(ss) == ~ss.hydrated

\* initialize_engine: the cache object and the model are stored in the session
initialize_engine(ss, existing_caches) ==
    [ss EXCEPT !.active_cache = get_or_create_cache(existing_caches).cache,
               !.model = TRUE]

\* 'if "model" not in st.session_state: ... initialize_engine()', the guard
\* of every call site: what the call does to Vertex ("none": not called)
engine_use(ss, existing_caches) ==
    IF ss.model
    THEN [caches |-> existing_caches, how |-> "none"]
    ELSE [caches |-> get_or_create_cache(existing_caches).caches,
          how    |-> get_or_create_cache(existing_caches).how]

\* no key chat_session
NoChatSession == [open |-> FALSE, sent |-> {}]

\* model.start_chat(history=handshake): the history of the new chat session
\* is the two-message profile handshake, nothing has been sent over it
start_chat == [open |-> TRUE, sent |-> {}]

\* the context prefix of get_instructor_response
context_prefix(ss) == IF Graduated(ss) THEN "GRADUATE" ELSE ss.active_lesson

\* get_instructor_response up to and including send_message: the model and
\* the chat session exist and the message went over the chat session
instructor_ready(ss, existing_caches) ==
    LET s1 == IF ss.model THEN ss ELSE initialize_engine(ss, existing_caches)
        s2 == IF ~s1.chat_session.open
              THEN [s1 EXCEPT !.chat_session = start_chat]
              ELSE s1
    IN  [s2 EXCEPT !.chat_session.sent = @ \cup {context_prefix(ss)}]

-----------------------------------------------------------------------------
(* Unlock rules *)

\* sidebar: module i (1-based) is unlocked
mod_unlocked_any(ss, i) ==
    IF i = 1 THEN TRUE
    ELSE \E j \in 1..Len(manifest[i-1].lessons) :
             Truthy(ss.archived_status, manifest[i-1].lessons[j])

mod_unlocked(ss, i) ==
    IF i = 1 THEN TRUE
    ELSE \A j \in 1..Len(manifest[i-1].lessons) :
             Truthy(ss.archived_status, manifest[i-1].lessons[j])

\* next((m for m in modules if m['id'] == active_mod), modules[0])
module_data(ss) ==
    IF \E i \in 1..Len(manifest) : manifest[i].id = ss.active_mod
    THEN manifest[CHOOSE i \in 1..Len(manifest) : manifest[i].id = ss.active_mod]
    ELSE manifest[1]

\* roadmap: lesson idx (1-based) of the active module is unlocked
is_unlocked_open(ss, idx) == TRUE

is_unlocked(ss, idx) ==
    IF idx = 1 THEN TRUE
    ELSE Truthy(ss.archived_status, module_data(ss).lessons[idx-1])

\* "Check for Mastery" of the user input processing
check_mastery_never(ss, text) == ss.archived_status

check_mastery(ss, text) ==
    IF HasValidate(text)
    THEN Put(ss.archived_status, ss.active_lesson, TRUE)
    ELSE ss.archived_status

-----------------------------------------------------------------------------
(* Script runs *)

NoReply == <<>>

\* no closed session to compare with
NoEnded == [valid |-> FALSE, archived_status |-> EmptyDict, lesson_chats |-> EmptyDict]
Failed == <<"ERROR">>

\* engine : what the run's call of get_or_create_cache did ("none": no call)
\* url : what resolve_asset_url returned in the run ("unused": not called)
\* hud : what the run put in the asset column ("none": the run did not get
\*       there), see hud_column and render_reference_deck
Ran(op, s, reply, target) ==
    [op |-> op, s |-> s, reply |-> reply, target |-> target,
     url |-> "unused", hud |-> "none", engine |-> "none"]

Shown(op, s, reply, url, hud) ==
    [op |-> op, s |-> s, reply |-> reply, target |-> 0,
     url |-> url, hud |-> hud, engine |-> "none"]

\* COLUMN 3: HUD (ASSET RESOLVER) of the lesson interface
hud_column(ss, sign_ok) ==
    IF ~NoAsset(ss.active_visual)
    THEN LET signed_url == resolve_asset_url(clean_id(ss.active_visual), sign_ok)
         IN  [url |-> signed_url,
              hud |-> IF signed_url # "None" THEN "media" ELSE "error"]
    ELSE [url |-> "unused", hud |-> "placeholder"]

\* render_reference_deck of the graduate interface.  The signed URL goes to
\* st.video / st.image unchecked; what those do with None is the library's
\* business: none_ok says whether the element is drawn without a source
\* ("media_none") or the call raises ("raised").
render_reference_deck(ss, sign_ok, none_ok) ==
    IF NoAsset(ss.active_visual)
    THEN [url |-> "unused", hud |-> "placeholder"]
    ELSE IF ss.active_visual \notin DOMAIN resource_library
    THEN [url |-> "unused", hud |-> "error"]
    ELSE LET signed_url == resolve_asset_url(ss.active_visual, sign_ok)
         IN  [url |-> signed_url,
              hud |-> IF signed_url # "None" THEN "media"
                      ELSE IF none_ok THEN "media_none" ELSE "raised"]

Set(s, ss) == session_state' = [session_state EXCEPT ![s] = ss]

\* pages on which the sidebar and the lesson roadmap are on screen
RoadmapPages == {"lesson", "lesson_partial", "lesson_chatfail"}

\* pages on which the lesson chat input is on screen
ChatPages == {"lesson", "lesson_chatfail"}

\* A run of an unauthenticated session with no form submitted: the login UI
OpenLogin(s) ==
    LET ss == Boot(session_state[s], users)
    IN  /\ ~Authenticated(ss)
        /\ Set(s, [ss EXCEPT !.page = "login"])
        /\ last' = Ran("open_login", s, NoReply, 0)
        /\ UNCHANGED <<users, lessons, ended, grad_in, grad_out, caches>>

\* authenticator.login: the login form (or the session cookie on a first run)
\* and "THE FIXED LOGIN & HYDRATION LOGIC"
Login(s, ok) ==
    LET ss  == Boot(session_state[s], users)
        in1 == [ss EXCEPT !.authentication_status = "True", !.username = Email]
        in2 == IF hydration_due(in1)
               THEN [load_audit_progress(
                         [in1 EXCEPT !.chat_session = NoChatSession,
                                     !.active_cache = 0],
                         lessons)
                     EXCEPT !.hydrated = TRUE]
               ELSE in1
        in3 == IF ~in2.model THEN initialize_engine(in2, caches) ELSE in2
        in4 == [in3 EXCEPT !.needs_handshake = (in3.chat_history = <<>>),
                           !.page = "rerun"]
    IN  /\ ~Authenticated(ss)
        /\ session_state[s].page \in {"none", "login"}
        /\ IF ok
           THEN /\ Email \in ss.authenticator.usernames
                /\ Set(s, in4)
                /\ caches' = engine_use(in2, caches).caches
                /\ last' = [Ran("login", s, NoReply, 0)
                            EXCEPT !.engine = engine_use(in2, caches).how]
                /\ ended' = NoEnded
           ELSE /\ session_state[s].page = "login"
                /\ Set(s, [ss EXCEPT !.authentication_status = "False",
                                     !.page = "login"])
                /\ last' = Ran("login_failed", s, NoReply, 0)
                /\ UNCHANGED <<ended, caches>>
        /\ UNCHANGED <<users, lessons, grad_in, grad_out>>

\* The registration form.
\* "if new_email and new_password and new_company"
registration_complete(new_email, new_password, new_company) ==
    new_email # "" /\ new_password # "" /\ new_company # ""

\* db.collection("users").document(new_email).set({...}): no merge, so the
\* record replaces an existing record of that email
user_record_merged(userdocs, new_email, new_password) ==
    Put(userdocs, new_email,
        [password |-> new_password,
         final_mastery_report |->
             IF new_email \in DOMAIN userdocs
             THEN userdocs[new_email].final_mastery_report ELSE "absent"])

user_record_set(userdocs, new_email, new_password) ==
    Put(userdocs, new_email,
        [password |-> new_password, final_mastery_report |-> "absent"])

\* 3. ENGINE HYDRATION and 4. INITIALIZE progress containers (the unused key
\* all_histories is left out)
registered(ss, new_email) ==
    [ss EXCEPT !.authentication_status = "True",
               !.username = new_email,
               !.archived_status = EmptyDict,
               !.active_lesson = "GEAR-01"]

\* the session when the write raised: the except branch is entered from the
\* set() call, before any session key is assigned
registration_interrupted_late(ss, new_email) == registered(ss, new_email)

registration_interrupted(ss, new_email) == ss

\* The run of a submitted registration form ends in one of three ways:
\* "register" (st.success, st.rerun), "register_failed" (the write raised:
\* st.error), "register_refused" (a mandatory field is empty: st.warning)
Register(s, new_email, new_password, new_company, write_ok) ==
    LET ss == Boot(session_state[s], users)
        complete == registration_complete(new_email, new_password, new_company)
    IN  /\ ~Authenticated(ss)
        /\ session_state[s].page = "login"
        /\ IF complete /\ write_ok
           THEN /\ users' = user_record_set(users, new_email, new_password)
                /\ Set(s, [registered(ss, new_email) EXCEPT !.page = "rerun"])
                /\ last' = Ran("register", s, NoReply, 0)
           ELSE IF complete
           THEN /\ UNCHANGED users
                /\ Set(s, [registration_interrupted(ss, new_email)
                           EXCEPT !.page = "login"])
                /\ last' = Ran("register_failed", s, NoReply, 0)
           ELSE /\ UNCHANGED users
                /\ Set(s, [ss EXCEPT !.page = "login"])
                /\ last' = Ran("register_refused", s, NoReply, 0)
        /\ UNCHANGED <<lessons, ended, grad_in, grad_out, caches>>

\* AUTO-HYDRATION GATE
AutoHydrate(s) ==
    LET ss == Boot(session_state[s], users)
        h  == [load_audit_progress(ss, lessons)
               EXCEPT !.hydrated = TRUE, !.page = "rerun"]
    IN  /\ Authenticated(ss)
        /\ ~Graduated(ss)
        /\ hydration_due(ss)
        /\ Set(s, h)
        /\ last' = Ran("auto_hydrate", s, NoReply, 0)
        /\ ended' = NoEnded
        /\ UNCHANGED <<users, lessons, grad_in, grad_out, caches>>

\* Column 2, no model in the session yet: engine sync
EngineSync(s) ==
    LET ss == Boot(session_state[s], users)
    IN  /\ Authenticated(ss)
        /\ ~Graduated(ss)
        /\ ss.hydrated
        /\ ~ss.model
        /\ Set(s, [initialize_engine(ss, caches) EXCEPT !.page = "rerun"])
        /\ caches' = engine_use(ss, caches).caches
        /\ last' = [Ran("engine_sync", s, NoReply, 0)
                    EXCEPT !.engine = engine_use(ss, caches).how]
        /\ UNCHANGED <<users, lessons, ended, grad_in, grad_out>>

\* Column 2, THE HANDSHAKE: reply is the greeting, or Failed when the AI
\* request raises (nothing catches it: the run ends there)
handshake_done(ss, reply) ==
    LET asset == AssetMatch(reply)
        chat  == <<ModelMsg(reply)>>
    IN  [ss EXCEPT !.active_visual = IF asset # "" THEN asset ELSE ss.active_visual,
                   !.chat_history = chat,
                   !.needs_handshake = FALSE,
                   !.lesson_chats = Put(ss.lesson_chats, ss.active_lesson, chat),
                   !.shared = TRUE]

Handshake(s, reply) ==
    LET ss   == Boot(session_state[s], users)
        sent == instructor_ready(ss, caches)
        done == handshake_done(sent, reply)
    IN  /\ Authenticated(ss)
        /\ ~Graduated(ss)
        /\ ss.hydrated
        /\ ss.model
        /\ ss.needs_handshake
        /\ IF reply = Failed
           THEN /\ Set(s, [sent EXCEPT !.page = "lesson_partial"])
                /\ UNCHANGED lessons
           ELSE /\ Set(s, [done EXCEPT !.page = "rerun"])
                /\ lessons' = save_audit_progress(done, lessons)
        /\ caches' = engine_use(ss, caches).caches
        /\ last' = [Ran("handshake", s, reply, 0)
                    EXCEPT !.engine = engine_use(ss, caches).how]
        /\ UNCHANGED <<users, ended, grad_in, grad_out>>

\* A run of the lesson interface that reaches the end of the script
Render(s, sign_ok) ==
    LET ss  == Boot(session_state[s], users)
        col == hud_column(ss, sign_ok)
    IN  /\ Authenticated(ss)
        /\ ~Graduated(ss)
        /\ ss.hydrated
        /\ ss.model
        /\ ~ss.needs_handshake
        /\ Set(s, [ss EXCEPT !.page = "lesson"])
        /\ last' = Shown("render", s, NoReply, col.url, col.hud)
        /\ UNCHANGED <<users, lessons, ended, grad_in, grad_out, caches>>


\* "CLEAR ENGINE: Force a fresh chat session for the new lesson"
fresh_engine_kept(ss) == ss

fresh_engine(ss) == [ss EXCEPT !.chat_session = NoChatSession]

\* What the module button and the lesson button handlers share: park the
\* live chat, switch, drop the chat session, hydrate the new lesson
switch_to(ss, new_mod, new_lesson_id) ==
    LET parked == Put(ss.lesson_chats, ss.active_lesson, ss.chat_history)
        chat   == Get(parked, new_lesson_id, <<>>)
    IN  [fresh_engine(ss)
            EXCEPT !.lesson_chats = parked,
                   !.active_mod = new_mod,
                   !.active_lesson = new_lesson_id,
                   !.chat_history = chat,
                   !.shared = (new_lesson_id \in DOMAIN parked),
                   !.active_visual = "None",
                   !.needs_handshake = (chat = <<>>),
                   !.page = "rerun"]

\* Sidebar: a click on the button of module i; a disabled button does nothing
ModuleClick(s, i) ==
    LET ss == Boot(session_state[s], users)
    IN  /\ Authenticated(ss)
        /\ ~Graduated(ss)
        /\ ss.hydrated
        /\ session_state[s].page \in RoadmapPages
        /\ IF mod_unlocked(ss, i)
           THEN Set(s, switch_to(ss, manifest[i].id, manifest[i].lessons[1]))
           ELSE UNCHANGED session_state
        /\ last' = Ran("module_click", s, NoReply, i)
        /\ UNCHANGED <<users, lessons, ended, grad_in, grad_out, caches>>

\* Column 1: a click on the button of lesson idx of the active module
LessonClick(s, idx) ==
    LET ss  == Boot(session_state[s], users)
        mod == module_data(ss)
    IN  /\ Authenticated(ss)
        /\ ~Graduated(ss)
        /\ ss.hydrated
        /\ session_state[s].page \in RoadmapPages
        /\ idx \in 1..Len(mod.lessons)
        /\ IF is_unlocked(ss, idx)
           THEN Set(s, switch_to(ss, ss.active_mod, mod.lessons[idx]))
           ELSE UNCHANGED session_state
        /\ last' = Ran("lesson_click", s, NoReply, idx)
        /\ UNCHANGED <<users, lessons, ended, grad_in, grad_out, caches>>

\* Column 2, USER INPUT PROCESSING
\* the user message is appended to the live list (and with it to the ledger
\* entry that is the same list object) before the AI is asked
chat_asked(ss, existing_caches) ==
    LET chat == Append(ss.chat_history, UserMsg)
    IN  [instructor_ready(ss, existing_caches)
         EXCEPT !.chat_history = chat,
                !.lesson_chats = IF ss.shared
                                 THEN Put(ss.lesson_chats, ss.active_lesson, chat)
                                 ELSE ss.lesson_chats]

chat_answered(ss, reply) ==
    LET asset == AssetMatch(reply)
        chat  == Append(ss.chat_history, ModelMsg(reply))
    IN  [ss EXCEPT !.active_visual = IF asset # "" THEN asset ELSE ss.active_visual,
                   !.lesson_assets =
                       IF asset # ""
                       THEN Put(ss.lesson_assets, ss.active_lesson,
                                Append(Get(ss.lesson_assets, ss.active_lesson, <<>>),
                                       asset))
                       ELSE ss.lesson_assets,
                   !.archived_status = check_mastery(ss, reply),
                   !.chat_history = chat,
                   !.lesson_chats = Put(ss.lesson_chats, ss.active_lesson, chat),
                   !.shared = TRUE]

Chat(s, reply) ==
    LET ss    == Boot(session_state[s], users)
        asked == chat_asked(ss, caches)
        done  == chat_answered(asked, reply)
    IN  /\ Authenticated(ss)
        /\ ~Graduated(ss)
        /\ ss.hydrated
        /\ ss.model
        /\ ~ss.needs_handshake
        /\ session_state[s].page \in ChatPages
        /\ IF reply = Failed
           THEN /\ Len(ss.chat_history) + 1 <= MaxChat
                /\ Set(s, [asked EXCEPT !.page = "lesson_chatfail"])
                /\ UNCHANGED lessons
           ELSE /\ Len(ss.chat_history) + 2 <= MaxChat
                /\ Set(s, [done EXCEPT !.page = "rerun"])
                /\ lessons' = save_audit_progress(done, lessons)
        /\ caches' = engine_use(ss, caches).caches
        /\ last' = [Ran("chat", s, reply, 0)
                    EXCEPT !.engine = engine_use(ss, caches).how]
        /\ UNCHANGED <<users, ended, grad_in, grad_out>>

\* "Congratulations on your graduation!..."
GradGreeting == [role |-> "assistant", content |-> <<"greeting">>]

\* INITIAL GREETING LOGIC
grad_greeted(ss) ==
    IF ss.grad_history = <<>>
    THEN [ss EXCEPT !.grad_history = <<GradGreeting>>]
    ELSE ss

\* A run in graduate mode with no chat input: PERSISTENT REPORT LOGIC, the
\* assistant column, then the reference deck.  A report that cannot be
\* produced ends the run in the first column.
GraduateRun(s, reply, sign_ok, none_ok) ==
    LET ss    == Boot(session_state[s], users)
        email == ss.username
        saved == IF email \in DOMAIN users
                 THEN users[email].final_mastery_report ELSE "absent"
        shown(x) ==
            LET deck == render_reference_deck(x, sign_ok, none_ok)
            IN  /\ Set(s, [grad_greeted(x) EXCEPT !.page = "grad"])
                /\ last' = Shown("graduate", s, reply, deck.url, deck.hud)
        died ==
            /\ Set(s, [ss EXCEPT !.page = "error"])
            /\ last' = Ran("graduate", s, reply, 0)
    IN  /\ Authenticated(ss)
        /\ Graduated(ss)
        /\ IF ss.graduation_report # "absent"
           THEN /\ reply = NoReply
                /\ shown(ss)
                /\ UNCHANGED users
           ELSE IF saved # "absent"
           THEN /\ reply = NoReply
                /\ shown([ss EXCEPT !.graduation_report = saved])
                /\ UNCHANGED users
           ELSE IF ~ss.model \/ email \notin DOMAIN users
           THEN \* st.session_state.model / user_doc_ref.update raise
                /\ reply = Failed
                /\ died
                /\ UNCHANGED users
           ELSE /\ reply \in {Failed, <<"report">>}
                /\ IF reply = Failed
                   THEN /\ died
                        /\ UNCHANGED users
                   ELSE /\ users' = [users EXCEPT
                                       ![email].final_mastery_report = "REPORT"]
                        /\ shown([ss EXCEPT !.graduation_report = "REPORT"])
        /\ UNCHANGED <<lessons, ended, grad_in, grad_out, caches>>

\* A run in graduate mode with a chat input ("Request technical support...").
\* The input box is on the page only when the report logic went through, so
\* the report is in the session.  The request raising ends the run with the
\* question in grad_history; otherwise the run ends in st.rerun().
GradChat(s, reply) ==
    LET ss    == Boot(session_state[s], users)
        asked == [instructor_ready(grad_greeted(ss), caches) EXCEPT
                    !.grad_history =
                        Append(grad_greeted(ss).grad_history,
                               [role |-> "user", content |-> <<"question">>])]
        asset == AssetMatch(reply)
        done  == [asked EXCEPT
                    !.active_visual = IF asset # "" THEN asset
                                      ELSE asked.active_visual,
                    !.grad_history =
                        Append(asked.grad_history,
                               [role |-> "assistant", content |-> reply]),
                    !.page = "rerun"]
    IN  /\ Authenticated(ss)
        /\ Graduated(ss)
        /\ session_state[s].page = "grad"
        /\ ss.graduation_report # "absent"
        /\ IF reply = Failed
           THEN /\ Len(ss.grad_history) + 1 <= MaxChat
                /\ Set(s, [asked EXCEPT !.page = "grad"])
           ELSE /\ Len(ss.grad_history) + 2 <= MaxChat
                /\ Set(s, done)
        /\ caches' = engine_use(ss, caches).caches
        /\ last' = [Ran("grad_chat", s, reply, 0)
                    EXCEPT !.engine = engine_use(ss, caches).how]
        /\ UNCHANGED <<users, lessons, ended, grad_in, grad_out>>

\* The browser tab is closed: the session state is gone, Firestore stays
EndSession(s) ==
    LET ss == session_state[s]
    IN  /\ ss.started
        /\ Set(s, Fresh)
        /\ ended' = IF ~ss.hydrated THEN ended
                    ELSE [valid |-> ss.page \in {"lesson", "grad", "rerun"},
                          archived_status |-> ss.archived_status,
                          lesson_chats |-> ss.lesson_chats]
        /\ last' = Ran("end", s, NoReply, 0)
        /\ UNCHANGED <<users, lessons, grad_in, grad_out, caches>>

-----------------------------------------------------------------------------
(* The single-session specification *)

NoInput == [m |-> manifest, a |-> EmptyDict]

Init ==
    /\ session_state = [s \in Sessions |-> Fresh]
    /\ users = [e \in {} |-> [password |-> "", final_mastery_report |-> "absent"]]
    /\ lessons = [l \in {} |-> LessonDoc("", <<>>, "")]
    /\ last = Ran("init", "s1", NoReply, 0)
    /\ ended = NoEnded
    /\ grad_in = NoInput
    /\ grad_out = "none"
    /\ caches = NoSyllabusCache

Step(s) ==
    \/ OpenLogin(s)
    \/ \E ok \in BOOLEAN : Login(s, ok)
    \/ \E e \in {"", Email}, p \in {"", "pw"}, c \in {"", "org"}, w \in BOOLEAN :
           Register(s, e, p, c, w)
    \/ AutoHydrate(s)
    \/ EngineSync(s)
    \/ \E r \in Replies \cup {Failed} : Handshake(s, r)
    \/ \E sign_ok \in BOOLEAN : Render(s, sign_ok)
    \/ \E i \in 1..Len(manifest) : ModuleClick(s, i)
    \/ \E idx \in 1..Len(all_manifest_lessons(manifest)) : LessonClick(s, idx)
    \/ \E r \in Replies \cup {Failed} : Chat(s, r)
    \/ \E r \in {NoReply, Failed, <<"report">>}, sign_ok \in BOOLEAN,
          none_ok \in BOOLEAN : GraduateRun(s, r, sign_ok, none_ok)
    \/ \E r \in Replies \cup {Failed} : GradChat(s, r)
    \/ EndSession(s)

Next == \E s \in Solo : Step(s)

Spec == Init /\ [][Next]_vars

-----------------------------------------------------------------------------
(* check_graduation_status on its own: the inputs are drawn in the initial *)
(* state, the one action evaluates the function                            *)

\* lesson ids a lessons subcollection may hold; "OLD-01" is a record whose
\* lesson is not (or no longer) in the manifest
GradKeys == {"GEAR-01", "GEAR-02", "BODY-01", "OLD-01"}

GradManifests ==
    { <<>>,
      << [id |-> "MOD-01", lessons |-> <<>>] >>,
      << [id |-> "MOD-01", lessons |-> <<"GEAR-01">>] >>,
      manifest }

GradLedgers ==
    UNION { [keys -> BOOLEAN] : keys \in SUBSET GradKeys }

InitGrad ==
    /\ session_state = [s \in Sessions |-> Fresh]
    /\ users = [e \in {} |-> [password |-> "", final_mastery_report |-> "absent"]]
    /\ lessons = [l \in {} |-> LessonDoc("", <<>>, "")]
    /\ last = Ran("init", "s1", NoReply, 0)
    /\ ended = NoEnded
    /\ grad_in \in [m : GradManifests, a : GradLedgers]
    /\ grad_out = "none"
    /\ caches = NoSyllabusCache

GradCheck ==
    /\ grad_out = "none"
    /\ caches = NoSyllabusCache
    /\ grad_out' = IF check_graduation_status(grad_in.m, grad_in.a)
                   THEN "True" ELSE "False"
    /\ UNCHANGED <<session_state, users, lessons, last, ended, grad_in, caches>>

NextGrad == GradCheck

SpecGrad == InitGrad /\ [][NextGrad]_vars

-----------------------------------------------------------------------------
(* Two sessions of one registered user, open at the same time (two browser *)
(* tabs or devices).  Each script run is still one step: Streamlit runs    *)
(* the sessions' scripts independently and the only state they share is    *)
(* Firestore.  The user exists already; the sessions log in, take their    *)
(* lessons and chat; every AI request succeeds and the greetings carry no  *)
(* tags.                                                                   *)

InitDuo ==
    /\ session_state = [s \in Sessions |-> Fresh]
    /\ users = [e \in {Email} |-> [password |-> "pw", final_mastery_report |-> "absent"]]
    /\ lessons = [l \in {} |-> LessonDoc("", <<>>, "")]
    /\ last = Ran("init", "s1", NoReply, 0)
    /\ ended = NoEnded
    /\ grad_in = NoInput
    /\ grad_out = "none"
    /\ caches = NoSyllabusCache

StepDuo(s) ==
    \/ OpenLogin(s)
    \/ Login(s, TRUE)
    \/ Handshake(s, <<"text">>)
    \/ \E sign_ok \in BOOLEAN : Render(s, sign_ok)
    \/ \E i \in 1..Len(manifest) : ModuleClick(s, i)
    \/ \E idx \in 1..Len(all_manifest_lessons(manifest)) : LessonClick(s, idx)
    \/ \E r \in Replies : Chat(s, r)

NextDuo == \E s \in Sessions : StepDuo(s)

SpecDuo == InitDuo /\ [][NextDuo]_vars

-----------------------------------------------------------------------------
(* Claims *)

\* the session whose run was the most recent one
Actor == session_state[last.s]

Reply(op) == last.op = op /\ last.reply # NoReply /\ last.reply # Failed

Hydrations == {"login", "auto_hydrate"}

\* C1 (as stated): after every run of the lesson interface that produced an
\* AI reply containing [VALIDATE: ALL] - the reply to a student message and
\* the handshake greeting alike - the active lesson is marked passed.
C1_MasteryEveryReply ==
    ((Reply("chat") \/ Reply("handshake")) /\ HasValidate(last.reply))
        => Truthy(Actor.archived_status, Actor.active_lesson)

\* C1 (amended): after every run that handled a student message and whose
\* AI reply contains [VALIDATE: ALL], the active lesson is marked passed.
C1_MasteryChatReply ==
    (Reply("chat") /\ HasValidate(last.reply))
        => Truthy(Actor.archived_status, Actor.active_lesson)

C1_Witness ==
    /\ Reply("chat")
    /\ HasValidate(last.reply)
    /\ Truthy(Actor.archived_status, Actor.active_lesson)

C3_SequentialUnlock ==
    [][ \A s \in Sessions :
          (last'.op = "lesson_click" /\ last'.s = s)
          => LET ss  == session_state[s]
                 seq == module_data(ss).lessons
                 idx == last'.target
                 selectable == idx = 1 \/ Truthy(ss.archived_status, seq[idx-1])
             IN  /\ selectable => session_state'[s].active_lesson = seq[idx]
                 /\ ~selectable => session_state'[s] = ss ]_vars

C3_Witness ==
    /\ last.op = "lesson_click"
    /\ last.target = 2
    /\ Actor.active_lesson = "GEAR-02"
    /\ Actor.page = "rerun"

\* C4: a click on the sidebar button of module i makes module i the active
\* module and its first lesson the active lesson when i is the first module
\* or every lesson of module i-1 is marked passed, and changes nothing
\* otherwise.
C4_ModuleUnlock ==
    [][ \A s \in Sessions :
          (last'.op = "module_click" /\ last'.s = s)
          => LET ss == session_state[s]
                 i  == last'.target
                 selectable ==
                     i = 1 \/ \A l \in Range(manifest[i-1].lessons) :
                                  Truthy(ss.archived_status, l)
             IN  /\ selectable =>
                       /\ session_state'[s].active_mod = manifest[i].id
                       /\ session_state'[s].active_lesson = manifest[i].lessons[1]
                 /\ ~selectable => session_state'[s] = ss ]_vars

C4_Witness ==
    /\ last.op = "module_click"
    /\ last.target = 2
    /\ Actor.active_mod = "MOD-02"
    /\ Actor.active_lesson = "BODY-01"
    /\ Actor.page = "rerun"

\* C5: right after a hydration the active lesson is the first manifest lesson
\* whose persisted status is not "Passed" ("GEAR-01" when all are passed),
\* chat_history is that lesson's persisted transcript (empty if none) and
\* active_mod is the module that holds that lesson.
PersistedPassed(l) == l \in DOMAIN lessons /\ lessons[l].status = "Passed"

PersistedChat(l) == IF l \in DOMAIN lessons THEN lessons[l].chat_history ELSE <<>>

C5_SmartResume ==
    last.op \in Hydrations
    => LET ss  == Actor
           ids == all_manifest_lessons(manifest)
       IN  /\ (\A i \in 1..Len(ids) : PersistedPassed(ids[i]))
                  => ss.active_lesson = "GEAR-01"
           /\ (\E i \in 1..Len(ids) : ~PersistedPassed(ids[i]))
                  => \E i \in 1..Len(ids) :
                        /\ ss.active_lesson = ids[i]
                        /\ ~PersistedPassed(ids[i])
                        /\ \A j \in 1..(i-1) : PersistedPassed(ids[j])
           /\ ss.chat_history = PersistedChat(ss.active_lesson)
           /\ \E m \in 1..Len(manifest) :
                 /\ manifest[m].id = ss.active_mod
                 /\ ss.active_lesson \in Range(manifest[m].lessons)

C5_Witness ==
    /\ last.op = "login"
    /\ Actor.active_lesson = "GEAR-02"
    /\ Actor.active_mod = "MOD-01"
    /\ Actor.chat_history # <<>>
    /\ PersistedPassed("GEAR-01")


\* C6: at the end of every run of the lesson interface that produced an AI
\* reply (handshake or student message), the persisted record of the active
\* lesson holds the session's chat_history, and status "Passed" exactly when
\* the active lesson is marked passed in archived_status ("In Progress"
\* otherwise).
C6_PersistAfterExchange ==
    (Reply("chat") \/ Reply("handshake"))
    => LET ss == Actor
       IN  /\ Authenticated(ss)
           /\ ss.active_lesson \in DOMAIN lessons
           /\ lessons[ss.active_lesson].chat_history = ss.chat_history
           /\ lessons[ss.active_lesson].status =
                  IF Truthy(ss.archived_status, ss.active_lesson)
                  THEN "Passed" ELSE "In Progress"

C6_Witness ==
    /\ Reply("chat")
    /\ Len(Actor.chat_history) = 3
    /\ lessons[Actor.active_lesson].chat_history = Actor.chat_history
    /\ lessons[Actor.active_lesson].status = "Passed"

\* C7 (as stated): the hydration of a new session restores, for every lesson,
\* the transcript and the passed/not-passed status that the session closed
\* before it held in lesson_chats and archived_status after its last
\* completed run.
C7_SaveLoadRoundTrip ==
    [][ \A s \in Sessions :
          (last'.op \in Hydrations /\ last'.s = s /\ ended.valid)
          => \A l \in LessonIds :
                /\ Get(session_state'[s].lesson_chats, l, <<>>)
                       = Get(ended.lesson_chats, l, <<>>)
                /\ Truthy(session_state'[s].archived_status, l)
                       = Truthy(ended.archived_status, l) ]_vars

\* the six session variables C8 names
Ledger(ss) ==
    <<ss.active_lesson, ss.active_mod, ss.archived_status, ss.lesson_chats,
      ss.lesson_assets, ss.chat_history>>

InitialLedger ==
    <<"GEAR-01", manifest[1].id, EmptyDict, EmptyDict, EmptyDict, <<>> >>

\* C8 (as stated): at the start of every script run, once the initialization
\* block has run, the six session variables hold their initial values,
\* whatever earlier runs of the session did.
C8_ResetEveryRun ==
    \A s \in Sessions :
        Ledger(Boot(session_state[s], users)) = InitialLedger

\* C8 (amended): the initialization block gives the six session variables
\* their initial values only in the first run of a session; in every later
\* run of the session it leaves them as the previous run left them.
C8_InitialisedOncePerSession ==
    \A s \in Sessions :
        LET ss == session_state[s]
            b  == Boot(ss, users)
        IN  /\ ~ss.started => (b.started /\ Ledger(b) = InitialLedger)
            /\ ss.started => Ledger(b) = Ledger(ss)

C8_Witness ==
    /\ last.op = "render"
    /\ Actor.started
    /\ Ledger(Actor) # InitialLedger
    /\ Actor.chat_history # <<>>
    /\ Actor.active_lesson = "GEAR-02"
    /\ Ledger(Boot(Actor, users)) = Ledger(Actor)

\* C9 (as stated): a handshake that puts a greeting in place of the
\* transcript is taken only while the session's chat_history and the
\* persisted transcript of the active lesson are both empty.
C9_HandshakeOnlyWithoutTranscript ==
    [][ \A s \in Sessions :
          ( /\ last'.op = "handshake"
            /\ last'.s = s
            /\ last'.reply # Failed )
          => /\ session_state[s].chat_history = <<>>
             /\ PersistedChat(session_state[s].active_lesson) = <<>> ]_vars

\* C10 (as stated): check_graduation_status returns True exactly when the
\* manifest lists at least one lesson and every lesson it lists is marked
\* passed in archived_status, whatever other keys archived_status holds.
C10_GraduationIffAllManifestLessonsPassed ==
    grad_out # "none"
    => LET ids == all_manifest_lessons(grad_in.m)
       IN  (grad_out = "True")
           <=> ( /\ Len(ids) > 0
                 /\ \A i \in 1..Len(ids) : Truthy(grad_in.a, ids[i]) )

\* C11: with two sessions of the same user open, every save (a run that
\* produced an AI reply) replaces status and chat_history of the active
\* lesson's record by the values of the saving session's own ledger,
\* whatever the record held and whatever the other session holds, and leaves
\* every other lesson record alone: the last writer wins.
C11_LastWriterWins ==
    [][ \A s \in Sessions :
          ( /\ last'.op \in {"chat", "handshake"}
            /\ last'.s = s
            /\ last'.reply # Failed )
          => LET ss == session_state'[s]
                 l  == ss.active_lesson
             IN  /\ l \in DOMAIN lessons'
                 /\ lessons'[l].chat_history = ss.chat_history
                 /\ lessons'[l].status =
                        IF Truthy(ss.archived_status, l)
                        THEN "Passed" ELSE "In Progress"
                 /\ \A k \in DOMAIN lessons' \ {l} :
                        k \in DOMAIN lessons /\ lessons'[k] = lessons[k] ]_vars

\* a session that never passed the lesson has just written "In Progress" and
\* its own transcript over the record of a lesson the other session passed
C11_Witness ==
    \E s, t \in Sessions :
        LET l == session_state[s].active_lesson
        IN  /\ s # t
            /\ Reply("chat")
            /\ last.s = s
            /\ l \in DOMAIN lessons
            /\ lessons[l].status = "In Progress"
            /\ lessons[l].chat_history = session_state[s].chat_history
            /\ Truthy(session_state[t].archived_status, l)
            /\ l \in DOMAIN session_state[t].lesson_chats
            /\ Len(session_state[t].lesson_chats[l]) = 3
            /\ HasValidate(session_state[t].lesson_chats[l][3].content)
            /\ session_state[t].lesson_chats[l] # lessons[l].chat_history

\* C12 (as stated): whenever a run of the lesson interface or of the graduate
\* interface draws the asset column while an asset is the active visual and
\* no signed URL could be produced for it, the column shows an error message
\* (no media element, no exception), in both interfaces alike.
C12_FailedUrlShowsError ==
    ( /\ last.op \in {"render", "graduate"}
      /\ last.hud # "none"
      /\ ~NoAsset(Actor.active_visual)
      /\ resolve_asset_url(Actor.active_visual, last.url = "URL") = "None" )
    => last.hud = "error"

\* the session variables C13 names
Identity(ss) ==
    <<ss.authentication_status, ss.username, ss.archived_status, ss.active_lesson>>

\* C13: a submitted registration form authenticates the session (sets
\* authentication_status and username, resets archived_status and
\* active_lesson) only in the run whose fields were all filled and whose
\* write succeeded, and that run has written the user record; a run with an
\* empty mandatory field writes nothing to the database; a run whose write
\* raised leaves authentication_status, username, archived_status and
\* active_lesson as they were.
C13_RegistrationAllOrNothing ==
    [][ \A s \in Sessions :
          (last'.s = s /\ last'.op \in {"register", "register_failed", "register_refused"})
          => LET before == session_state[s]
                 after  == session_state'[s]
             IN  /\ last'.op = "register"
                    => /\ after.authentication_status = "True"
                       /\ after.username \in DOMAIN users'
                       /\ after.username # ""
                       /\ users'[after.username].password # ""
                       /\ after.archived_status = EmptyDict
                       /\ after.active_lesson = "GEAR-01"
                 /\ last'.op = "register_refused"
                    => /\ users' = users
                       /\ lessons' = lessons
                       /\ Identity(after) = Identity(before)
                 /\ last'.op = "register_failed"
                    => /\ users' = users
                       /\ Identity(after) = Identity(before)
                 /\ (after.authentication_status = "True")
                    => last'.op = "register" ]_vars

\* the write of a registration attempt raised: the session is still
\* unauthenticated and no user record exists
C13_Witness ==
    /\ last.op = "register_failed"
    /\ Actor.authentication_status = "None"
    /\ Actor.username = "absent"
    /\ Actor.page = "login"
    /\ Email \notin DOMAIN users

\* C14: a run that calls get_or_create_cache gets a cache that was already
\* listed with the display name "alpha-syllabus-cache" whenever there is
\* one, and then no cache is created; a cache is created (and returned) only
\* when none is listed; and in a session that has a model stored no run
\* calls get_or_create_cache, creates a cache or stores another cache.
C14_CacheReusedEngineOnce ==
    [][ \A s \in Sessions :
          (last'.s = s /\ last'.op # "end")
          => LET before == session_state[s]
                 after  == session_state'[s]
                 listed == \E i \in 1..Len(caches) : caches[i] = CACHE_DISPLAY_NAME
             IN  /\ (last'.engine # "none" /\ listed)
                    => /\ caches' = caches
                       /\ after.active_cache \in 1..Len(caches)
                       /\ caches[after.active_cache] = CACHE_DISPLAY_NAME
                 /\ (last'.engine # "none" /\ ~listed)
                    => /\ caches' = Append(caches, CACHE_DISPLAY_NAME)
                       /\ after.active_cache = Len(caches')
                 /\ (caches' # caches) => (last'.engine # "none" /\ ~listed)
                 /\ before.model
                    => /\ last'.engine = "none"
                       /\ caches' = caches
                       /\ after.model
                       /\ after.active_cache = before.active_cache ]_vars

\* a later session's engine warm-up found the cache an earlier session
\* created and created none
C14_Witness ==
    /\ last.op = "login"
    /\ last.engine = "found"
    /\ caches = <<"other-cache", CACHE_DISPLAY_NAME>>
    /\ Actor.active_cache = 2
    /\ Actor.model

\* C15: load_audit_progress runs (a login or an auto-hydration) only in a
\* session that is not yet marked hydrated; a handshake, the handling of a
\* student message and every write of a lesson record happen only in a
\* session that is already hydrated; and a run of a hydrated session leaves
\* it hydrated, is no hydration, and leaves the archived_status and
\* lesson_chats entries of every lesson but the active one as they were.
C15_HydrateOnceBeforeLessons ==
    [][ \A s \in Sessions :
          (last'.s = s /\ last'.op # "end")
          => LET before == session_state[s]
                 after  == session_state'[s]
             IN  /\ last'.op \in Hydrations
                    => (~before.hydrated /\ after.hydrated)
                 /\ (last'.op \in {"handshake", "chat"} \/ lessons' # lessons)
                    => (before.hydrated /\ before.authentication_status = "True")
                 /\ before.hydrated
                    => /\ after.hydrated
                       /\ last'.op \notin Hydrations
                       /\ \A l \in LessonIds \ {before.active_lesson} :
                             /\ (l \in DOMAIN after.archived_status)
                                    = (l \in DOMAIN before.archived_status)
                             /\ l \in DOMAIN before.archived_status
                                    => after.archived_status[l]
                                           = before.archived_status[l]
                             /\ (l \in DOMAIN after.lesson_chats)
                                    = (l \in DOMAIN before.lesson_chats)
                             /\ l \in DOMAIN before.lesson_chats
                                    => after.lesson_chats[l]
                                           = before.lesson_chats[l] ]_vars

\* a session that registered, was hydrated by the gate and passed GEAR-01
\* has handled a student message of GEAR-02, which is saved
C15_Witness ==
    /\ Reply("chat")
    /\ Actor.hydrated
    /\ Actor.active_lesson = "GEAR-02"
    /\ Truthy(Actor.archived_status, "GEAR-01")
    /\ Actor.authenticator.usernames = {}
    /\ "GEAR-02" \in DOMAIN lessons

\* C16: a click that selects a lesson or a module leaves the session without
\* a chat session; in a session that is in the lesson interface every
\* message that went over the stored chat session was sent with the lesson
\* that is active now in focus; and an AI request made while no chat session
\* is stored goes over a chat session started in that run, whose log after
\* the run holds that one message only.
C16_ChatSessionOfOneLesson ==
    [][ \A s \in Sessions :
          LET before == session_state[s]
              after  == session_state'[s]
          IN  /\ (~Graduated(after) /\ after.chat_session.open)
                 => after.chat_session.sent \subseteq {after.active_lesson}
              /\ ( /\ last'.s = s
                   /\ last'.op \in {"lesson_click", "module_click"}
                   /\ after # before )
                 => after.chat_session = NoChatSession
              /\ ( /\ last'.s = s
                   /\ last'.op \in {"handshake", "chat"}
                   /\ ~before.chat_session.open )
                 => /\ after.chat_session.open
                    /\ after.chat_session.sent = {before.active_lesson} ]_vars

\* the session chatted in GEAR-01, switched to GEAR-02, and its handshake
\* there went over a new chat session
C16_Witness ==
    /\ Reply("handshake")
    /\ Actor.active_lesson = "GEAR-02"
    /\ Get(Actor.lesson_assets, "GEAR-01", <<>>) # <<>>
    /\ Actor.chat_session.open
    /\ Actor.chat_session.sent = {"GEAR-02"}

\* the asset the instructor surfaced last in a transcript ("" when none of
\* its messages carries an asset tag)
RECURSIVE LastSurfaced(_)
LastSurfaced(chat) ==
    IF chat = <<>> THEN ""
    ELSE LET msg == chat[Len(chat)]
         IN  IF msg.role = "model" /\ AssetMatch(msg.content) # ""
             THEN AssetMatch(msg.content)
             ELSE LastSurfaced(SubSeq(chat, 1, Len(chat) - 1))

\* C17 (as stated): every persisted lesson record whose transcript shows
\* that the instructor surfaced an asset in the lesson holds, as
\* assets_surfaced, the identifier of the asset surfaced last - it is never
\* an empty value, whatever lesson switch, new session or tag-less reply came
\* before the save.
C17_LastSurfacedAssetPersisted ==
    \A l \in DOMAIN lessons :
        LastSurfaced(lessons[l].chat_history) # ""
        => lessons[l].assets_surfaced = LastSurfaced(lessons[l].chat_history)

\* the report the user record of email e holds ("absent": none, or no record)
StoredReport(userdocs, e) ==
    IF e \in DOMAIN userdocs THEN userdocs[e].final_mastery_report ELSE "absent"

\* C18 (as stated): a run of the graduate interface asks the AI for the
\* report only when neither the session nor the user record holds one; a
\* generated report is in the user record when the run shows it; a run that
\* finds a report in the user record shows that report without asking the
\* AI; and a report once stored stays in the user record, so that every
\* later session of the user finds and shows it.
C18_ReportGeneratedOnceAndKept ==
    [][ /\ \A s \in Sessions :
             (last'.s = s /\ last'.op = "graduate")
             => LET before == session_state[s]
                    after  == session_state'[s]
                    stored == StoredReport(users, before.username)
                IN  /\ last'.reply # NoReply
                       => (before.graduation_report = "absent" /\ stored = "absent")
                    /\ last'.reply = <<"report">>
                       => /\ StoredReport(users', before.username) = "REPORT"
                          /\ after.graduation_report = "REPORT"
                    /\ stored # "absent"
                       => /\ last'.reply = NoReply
                          /\ after.graduation_report = stored
                          /\ after.page = "grad"
        /\ \A e \in DOMAIN users :
             users[e].final_mastery_report # "absent"
             => StoredReport(users', e) = users[e].final_mastery_report ]_vars

\* a transcript that starts with an instructor message and then alternates
\* student and instructor messages
Alternating(chat) ==
    \A i \in 1..Len(chat) :
        chat[i].role = IF i % 2 = 1 THEN "model" ELSE "user"

\* C19 (as stated): every lesson transcript - the live chat_history and the
\* lesson_chats entries of every session and the chat_history of every
\* persisted lesson record - starts with an instructor message and strictly
\* alternates student and instructor messages, also after an AI request
\* that failed when the student message had been appended.
C19_TranscriptAlternates ==
    /\ \A s \in Sessions :
          /\ Alternating(session_state[s].chat_history)
          /\ \A l \in DOMAIN session_state[s].lesson_chats :
                Alternating(session_state[s].lesson_chats[l])
    /\ \A l \in DOMAIN lessons : Alternating(lessons[l].chat_history)

\* C20: a successful registration leaves under the submitted email a user
\* record made of the submitted data alone - whatever record the email had
\* (its password hash and stored report are gone) - leaves every other user
\* record and all lesson records untouched and authenticates the session as
\* that email; the hydration that follows loads, for every lesson record
\* found under that email, its pass status and its transcript into the
\* session.
C20_RegistrationTakesOverRecords ==
    [][ \A s \in Sessions :
          LET before == session_state[s]
              after  == session_state'[s]
              e      == after.username
          IN  /\ (last'.s = s /\ last'.op = "register")
                 => /\ after.authentication_status = "True"
                    /\ e \in DOMAIN users'
                    /\ users'[e].password # ""
                    /\ users'[e].final_mastery_report = "absent"
                    /\ \A o \in DOMAIN users \ {e} :
                          o \in DOMAIN users' /\ users'[o] = users[o]
                    /\ lessons' = lessons
              /\ (last'.s = s /\ last'.op = "auto_hydrate")
                 => /\ before.username = e
                    /\ DOMAIN after.archived_status = DOMAIN lessons
                    /\ DOMAIN after.lesson_chats = DOMAIN lessons
                    /\ \A l \in DOMAIN lessons :
                          /\ after.archived_status[l] = (lessons[l].status = "Passed")
                          /\ after.lesson_chats[l] = lessons[l].chat_history ]_vars

\* a session opened when the email was registered already has registered it
\* again and its hydration has loaded the passed lessons and the transcripts
\* stored under it; the new user record holds no report
C20_Witness ==
    /\ last.op = "auto_hydrate"
    /\ Actor.authenticator.usernames = {Email}
    /\ Actor.username = Email
    /\ \A l \in LessonIds :
          /\ Truthy(Actor.archived_status, l)
          /\ Len(Actor.lesson_chats[l]) = 3
    /\ StoredReport(users, Email) = "absent"

====
